---- MODULE Spec2Model ----
(***************************************************************************)
(* Model of lib/content-types/merge.js: squish(types, config) combines     *)
(* content type configurations with input plugin templates inside a        *)
(* Promise executor.  JavaScript values are modelled by strings; a missing *)
(* property is ABSENT, a property holding undefined is UNDEF.              *)
(***************************************************************************)
EXTENDS Integers, Sequences, FiniteSets, TLC

\* ---- bounds of the model ------------------------------------------------
MaxAttrs == 2
MaxMin == 2
MaxCalls == 2

\* ---- JavaScript values ---------------------------------------------------
ABSENT == "absent"
UNDEF == "undefined"
TRUE_ == "bool:true"
FALSE_ == "bool:false"
NUM0 == "num:0"
NUM1 == "num:1"
NUM2 == "num:2"
NUM3 == "num:3"
NUM42 == "num:42"
MAX_SAFE_INTEGER == "num:9007199254740991"

\* own-property test
hasOwnProperty(v) == v # ABSENT

\* reading a property: a missing one reads as undefined
Get(v) == IF v = ABSENT THEN UNDEF ELSE v

\* JavaScript truthiness of the scalar values used here
Truthy(v) == v \notin {ABSENT, UNDEF, FALSE_, NUM0, ""}

\* typeof v === 'string'
IsString(v) == v \notin {ABSENT, UNDEF, TRUE_, FALSE_, NUM0, NUM1, NUM2, NUM3, NUM42}

\* ---- requiredLevel -------------------------------------------------------
requiredLevel(level) ==
  IF level \in {TRUE_, "save", NUM2} THEN "save"
  ELSE IF level \in {"publish", NUM1} THEN "publish"
  ELSE FALSE_

\* ---- lodash/kebabCase on the identifiers of the model --------------------
slugify(id) ==
  CASE id = "slug" -> "slug"
    [] id = "body" -> "body"
    [] id = "Bad Id" -> "bad-id"
    [] id = "myField" -> "my-field"
    [] OTHER -> ""

\* ---- inputs --------------------------------------------------------------
\* An input object (template input, override or resolved input).  options
\* is {} when missing and {S} when present with the entries S; id and name
\* are <<>> when missing, otherwise the parts joined by '--'.
InputObj(ty, val, scr, opts, req) ==
  [type |-> ty, validation |-> val, script |-> scr, options |-> opts,
   label |-> ABSENT, required |-> req, id |-> <<>>, name |-> <<>>]

\* attribute.inputs / plugin.inputs: a map of inputs, or an array of maps
NoInputs == [arr |-> FALSE, maps |-> <<>>]
MapInputs(m) == [arr |-> FALSE, maps |-> <<m>>]
ArrInputs(s) == [arr |-> TRUE, maps |-> s]

\* insertion order of the input keys of the catalog
KeyOrder == <<"value", "a", "b", "choice">>
KeyPos(k) == CHOOSE i \in 1..Len(KeyOrder) : KeyOrder[i] = k

\* Object.keys(inputs): an array has index keys, which name no template input
InputKeys(inp) ==
  IF inp.arr \/ inp.maps = <<>> THEN {} ELSE DOMAIN inp.maps[1]

\* Object.keys(inputs).length
InputCount(inp) ==
  IF inp.arr THEN Len(inp.maps)
  ELSE IF inp.maps = <<>> THEN 0 ELSE Cardinality(DOMAIN inp.maps[1])

\* ---- repeatable ----------------------------------------------------------
NoRep == [kind |-> "absent", min |-> <<>>, max |-> ABSENT]
RepTrue == [kind |-> "true", min |-> <<>>, max |-> ABSENT]
RepFalse == [kind |-> "false", min |-> <<>>, max |-> ABSENT]
RepObj(mn, mx) == [kind |-> "object", min |-> mn, max |-> mx]

\* ---- the plugin catalog (result of plugabilly) ---------------------------
Template(nm, req, m) ==
  [id |-> ABSENT, type |-> ABSENT, name |-> nm, description |-> "tpl description",
   required |-> req, inputs |-> MapInputs(m), repeatable |-> NoRep]

Catalog ==
  [t \in {"text", "pair", "sel"} |->
     CASE t = "text" ->
            Template("Text", "publish",
              [k \in {"value"} |-> InputObj("string", "maxLength:10", ABSENT, {}, ABSENT)])
       [] t = "pair" ->
            Template("Pair", ABSENT,
              [k \in {"a", "b"} |->
                 IF k = "a" THEN InputObj("string", "va", "a.js", {}, ABSENT)
                 ELSE InputObj("number", "vb", ABSENT, {}, ABSENT)])
       [] t = "sel" ->
            Template("Select", ABSENT,
              [k \in {"choice"} |-> InputObj("select", "vsel", "sel.js", {{"T1", "T2"}}, ABSENT)])]

\* ---- attributes and content types ----------------------------------------
Attr(id, ty, nm, req, inp, rep) ==
  [id |-> id, type |-> ty, name |-> nm, description |-> ABSENT,
   required |-> req, inputs |-> inp, repeatable |-> rep]

ContentType(ident, nm, as) == [identifier |-> ident, name |-> nm, attributes |-> as]


\* ---- errors and the promise ----------------------------------------------
\* An error: its kind and the content type / attribute (0: none) it names.
Err(kind, t, a) == [kind |-> kind, ti |-> t, ai |-> a]
NoError == Err("none", 0, 0)

Pending == [state |-> "pending", error |-> NoError, value |-> <<>>]

\* a reject that replaces an earlier settlement
RejectLast(p, e) == [state |-> "rejected", error |-> e, value |-> <<>>]

\* reject(e): only the first settlement of a promise counts
Reject(p, e) ==
  IF p.state = "pending" THEN [state |-> "rejected", error |-> e, value |-> <<>>] ELSE p

\* resolve(v)
Fulfil(p, v) ==
  IF p.state = "pending" THEN [state |-> "fulfilled", error |-> NoError, value |-> v] ELSE p

RECURSIVE RejectAll(_, _)
\* the reject calls of one step, in program order
RejectAll(p, errs) ==
  IF errs = <<>> THEN p ELSE RejectAll(Reject(p, Head(errs)), Tail(errs))

When(cond, e) == IF cond THEN <<e>> ELSE <<>>

\* ---- attribute resolution ------------------------------------------------
\* deepmerge(target, source) on input objects: source properties win,
\* arrays (options) are combined
merge(t, o) ==
  [type |-> IF hasOwnProperty(o.type) THEN o.type ELSE t.type,
   validation |-> IF hasOwnProperty(o.validation) THEN o.validation ELSE t.validation,
   script |-> IF hasOwnProperty(o.script) THEN o.script ELSE t.script,
   options |-> IF o.options = {} THEN t.options
               ELSE IF t.options = {} THEN o.options
               ELSE {(UNION t.options) \cup (UNION o.options)},
   label |-> IF hasOwnProperty(o.label) THEN o.label ELSE t.label,
   required |-> IF hasOwnProperty(o.required) THEN o.required ELSE t.required,
   id |-> IF o.id # <<>> THEN o.id ELSE t.id,
   name |-> IF o.name # <<>> THEN o.name ELSE t.name]

\* the required value the override merge writes to one input
inputRequired(mergedReq, pluginReq) ==
  IF ~hasOwnProperty(mergedReq) THEN Get(pluginReq) ELSE requiredLevel(mergedReq)

\* one overridden input: merge, then reassert the template-owned fields
mergeInput(tin, ov, pluginReq) ==
  LET merged == merge(tin, ov) IN
  [merged EXCEPT
     !.validation = Get(tin.validation),
     !.type = Get(tin.type),
     !.script = IF hasOwnProperty(tin.script) THEN tin.script ELSE merged.script,
     !.options = IF ov.options # {} THEN ov.options ELSE merged.options,
     !.required = inputRequired(merged.required, pluginReq)]

\* the attribute's own required taking precedence over the identifier rule
attributeRequiredOwnFirst(attribute, identifier, tplReq) ==
  IF Truthy(attribute.required) THEN requiredLevel(attribute.required)
  ELSE IF Get(attribute.id) = Get(identifier) THEN "save"
  ELSE tplReq

\* plugin.required after the attribute-level overrides
attributeRequired(attribute, identifier, tplReq) ==
  IF Get(attribute.id) = Get(identifier) THEN "save"
  ELSE IF Truthy(attribute.required) THEN requiredLevel(attribute.required)
  ELSE tplReq

\* clone of the template with name, description, required, id, type and the
\* default label applied
applyAttribute(attribute, identifier, tpl) ==
  LET nm == IF Truthy(attribute.name) THEN attribute.name ELSE tpl.name
      tm == tpl.inputs.maps[1]
  IN [id |-> Get(attribute.id),
      type |-> Get(attribute.type),
      name |-> nm,
      description |-> IF Truthy(attribute.description) THEN attribute.description
                      ELSE tpl.description,
      required |-> attributeRequired(attribute, identifier, tpl.required),
      inputs |-> MapInputs(IF Cardinality(DOMAIN tm) = 1
                           THEN [k \in DOMAIN tm |-> [tm[k] EXCEPT !.label = Get(nm)]]
                           ELSE tm),
      repeatable |-> NoRep]

\* the input keys the attribute overrides and the template has
overridden(plugin, attribute) ==
  InputKeys(attribute.inputs) \cap InputKeys(plugin.inputs)

mergeOverrides(plugin, attribute) ==
  LET pm == plugin.inputs.maps[1] IN
  [plugin EXCEPT !.inputs =
     MapInputs([k \in DOMAIN pm |->
        IF k \in overridden(plugin, attribute)
        THEN mergeInput(pm[k], attribute.inputs.maps[1][k], plugin.required)
        ELSE pm[k]])]

\* the values assigned to a required property while resolving one attribute
requiredWrites(attribute, identifier, tpl) ==
  LET plugin == applyAttribute(attribute, identifier, tpl)
      am == plugin.inputs.maps[1]
  IN (IF Truthy(attribute.required) THEN {requiredLevel(attribute.required)} ELSE {})
     \cup (IF Get(attribute.id) = Get(identifier) THEN {"save"} ELSE {})
     \cup {inputRequired(merge(am[k], attribute.inputs.maps[1][k]).required, plugin.required) :
             k \in overridden(plugin, attribute)}

\* uuid.v4() for each input in key order, and the derived name
assignIdentity(plugin, uid) ==
  LET im == plugin.inputs.maps[1] IN
  [plugin EXCEPT !.inputs =
     MapInputs([k \in DOMAIN im |->
        [im[k] EXCEPT
           !.id = <<uid + Cardinality({j \in DOMAIN im : KeyPos(j) < KeyPos(k)})>>,
           !.name = <<plugin.id, k>>]])]

\* plugin.repeatable.min / max after unifying the structure
repeatableMin(rep) == IF rep.kind = "object" /\ rep.min # <<>> THEN rep.min[1] ELSE 1
repeatableMax(rep) ==
  IF rep.kind = "object" /\ hasOwnProperty(rep.max) THEN rep.max ELSE MAX_SAFE_INTEGER

\* instance i of the inputs of a repeatable
instance(em, i) ==
  [k \in DOMAIN em |->
     [em[k] EXCEPT !.id = Append(em[k].id, i), !.name = Append(em[k].name, i)]]

\* instances numbered from 1
instancesOneBased(em, n) == [i \in 1..n |-> instance(em, i)]

instances(em, n) == [i \in 1..n |-> instance(em, i - 1)]

expandRepeatable(plugin, attribute) ==
  IF attribute.repeatable.kind \in {"true", "object"}
  THEN [plugin EXCEPT
          !.repeatable = RepObj(<<repeatableMin(attribute.repeatable)>>,
                                repeatableMax(attribute.repeatable)),
          !.inputs = ArrInputs(instances(plugin.inputs.maps[1],
                                         repeatableMin(attribute.repeatable)))]
  ELSE plugin

\* the body of the attributes.map callback after validation
resolveAttribute(attribute, identifier, tpl, uid) ==
  expandRepeatable(
    assignIdentity(mergeOverrides(applyAttribute(attribute, identifier, tpl), attribute), uid),
    attribute)

\* attrs.find(attr => attr.id === identifier): 0 when there is none
contenderIndex(as, identifier) ==
  IF \E i \in 1..Len(as) : as[i].id = Get(identifier)
  THEN CHOOSE i \in 1..Len(as) :
         /\ as[i].id = Get(identifier)
         /\ \A j \in 1..(i - 1) : as[j].id # Get(identifier)
  ELSE 0

\* the options test applied to the inputs container instead of its first input
firstHasOptionsOfContainer(inp) == "options" \in InputKeys(inp)

\* contender.inputs[Object.keys(contender.inputs)[0]].hasOwnProperty('options')
firstHasOptions(inp) ==
  IF inp.arr THEN FALSE
  ELSE LET fm == inp.maps[1]
           fk == CHOOSE k \in DOMAIN fm : \A j \in DOMAIN fm : KeyPos(k) <= KeyPos(j)
       IN fm[fk].options # {}


\* ---- the inputs of the model ---------------------------------------------
OvText ==
  MapInputs([k \in {"value"} |->
     InputObj("number", "maxLength:999", "evil.js", {}, ABSENT)])
OvTextOptions ==
  MapInputs([k \in {"value"} |-> InputObj(ABSENT, ABSENT, ABSENT, {{"A", "B"}}, NUM1)])
OvSel ==
  MapInputs([k \in {"choice"} |-> InputObj(ABSENT, "vx", ABSENT, {{"X"}}, FALSE_)])
OvPair ==
  MapInputs([k \in {"a", "b", "zzz"} |->
     IF k = "a" THEN InputObj(ABSENT, ABSENT, "ov.js", {}, ABSENT)
     ELSE InputObj("string", ABSENT, "ov.js", {{"P"}}, "banana")])

AttrPool ==
  { Attr("slug", "text", "Slug", ABSENT, NoInputs, NoRep),
    Attr("slug", "text", "Slug", "publish", OvText, NoRep),
    Attr("slug", "text", "Slug", FALSE_, OvTextOptions, NoRep),
    Attr("slug", "pair", "Slug", NUM1, NoInputs, NoRep),
    Attr("slug", "sel", "Slug", ABSENT, NoInputs, NoRep),
    Attr("slug", "text", "Slug", ABSENT, NoInputs, RepTrue),
    Attr("body", "text", "Body", ABSENT, OvText, NoRep),
    Attr("body", "sel", "Body", TRUE_, OvSel, RepObj(<<>>, "num:5")),
    Attr("body", "pair", "Body", NUM3, OvPair, RepFalse),
    Attr("body", "unknown", "Body", ABSENT, NoInputs, NoRep),
    Attr("body", "text", ABSENT, ABSENT, NoInputs, NoRep),
    Attr(ABSENT, "text", "NoId", ABSENT, NoInputs, NoRep),
    Attr("Bad Id", "text", "Bad", ABSENT, NoInputs, NoRep),
    Attr("myField", "unknown", ABSENT, ABSENT, NoInputs, NoRep) }
  \cup { Attr("slug", "text", "Slug", ABSENT, NoInputs, RepObj(<<n>>, ABSENT)) : n \in 0..MaxMin }
  \cup { Attr("body", "pair", "Body", ABSENT, OvPair, RepObj(<<MaxMin>>, "num:5")) }

AttrLists == UNION { [1..n -> AttrPool] : n \in 1..MaxAttrs }

MainTypes ==
  { ContentType(i, "Main", as) : i \in {"slug", "body", ABSENT, NUM42}, as \in AttrLists }

ExtraTypes ==
  { ContentType("slug", "Extra", <<Attr("slug", "text", "Slug", ABSENT, NoInputs, NoRep)>>),
    ContentType("slug", "Extra", <<Attr("slug", "unknown", "Slug", ABSENT, NoInputs, NoRep)>>),
    ContentType("slug", "Extra", <<Attr("slug", "pair", "Slug", ABSENT, NoInputs, NoRep)>>) }

\* a second content type accompanies the main types of one attribute
ShortTypes == { m \in MainTypes : Len(m.attributes) = 1 }

TypeLists ==
  {<<>>} \cup { <<m>> : m \in MainTypes }
  \cup { <<m, e>> : m \in ShortTypes, e \in ExtraTypes }
  \cup { <<e, m>> : e \in ExtraTypes, m \in ShortTypes }

\* ---- state ---------------------------------------------------------------
VARIABLES
  types,       \* the types argument; its objects are shared with the caller
  isArray,     \* Array.isArray(types)
  plugins,     \* the plugin catalog
  promise,     \* the promise squish returns
  pc,          \* position of the executor
  ti,          \* index of the content type being mapped
  ai,          \* index of the attribute being mapped
  ids,         \* ids seen in the current content type
  attrs,       \* resolved attributes of the current content type
  configured,  \* result of types.map so far
  uuid,        \* next identifier uuid.v4() hands out
  call,        \* number of the squish call in progress
  callTypes,   \* value of types when the call in progress started
  result1,     \* the settled promise of the first call
  raised,      \* every error passed to reject or thrown, in order
  written      \* every value assigned to a required property in this call

vars ==
  <<types, isArray, plugins, promise, pc, ti, ai, ids, attrs, configured,
    uuid, call, callTypes, result1, raised, written>>

Init ==
  /\ isArray \in BOOLEAN
  /\ types \in (IF isArray THEN TypeLists ELSE {<<>>})
  /\ plugins = Catalog
  /\ promise = Pending
  /\ pc = "start"
  /\ ti = 0
  /\ ai = 0
  /\ ids = <<>>
  /\ attrs = <<>>
  /\ configured = <<>>
  /\ uuid = 1
  /\ call = 1
  /\ callTypes = types
  /\ result1 = Pending
  /\ raised = <<>>
  /\ written = {}

\* ---- the executor --------------------------------------------------------
\* lines 45-48: the array check; types.map on a non-array throws
Start ==
  /\ pc = "start"
  /\ LET errs == When(~isArray, Err("NotAnArray", 0, 0)) IN
       /\ promise' = RejectAll(promise, errs)
       /\ raised' = raised \o errs
  /\ pc' = IF ~isArray THEN "done" ELSE IF types = <<>> THEN "resolve" ELSE "type"
  /\ ti' = IF isArray /\ types # <<>> THEN 1 ELSE ti
  /\ UNCHANGED <<types, isArray, plugins, ai, ids, attrs, configured, uuid, call,
                 callTypes, result1, written>>

\* lines 49-60: the identifier checks of one content type
TypeHeader ==
  /\ pc = "type"
  /\ LET mergedType == types[ti]
         errs == When(~hasOwnProperty(mergedType.identifier),
                      Err("MissingIdentifierField", ti, 0))
                 \o When(hasOwnProperty(mergedType.identifier)
                           /\ ~IsString(mergedType.identifier),
                         Err("InvalidIdentifierType", ti, 0))
     IN /\ promise' = RejectAll(promise, errs)
        /\ raised' = raised \o errs
        /\ pc' = IF mergedType.attributes = <<>> THEN "ident" ELSE "validate"
  /\ ids' = <<>>
  /\ attrs' = <<>>
  /\ ai' = 1
  /\ UNCHANGED <<types, isArray, plugins, ti, configured, uuid, call, callTypes,
                 result1, written>>

\* lines 63-94: the five checks of one attribute
validationErrors(attribute, seen, t, a, catalog) ==
  When(Get(attribute.type) \notin DOMAIN catalog, Err("PluginNotFound", t, a))
  \o When(~hasOwnProperty(attribute.name), Err("MissingAttributeName", t, a))
  \o When(~hasOwnProperty(attribute.id), Err("MissingAttributeId", t, a))
  \o When(\E i \in 1..Len(seen) : seen[i] = Get(attribute.id),
          Err("DuplicateAttributeId", t, a))
  \o When(slugify(Get(attribute.id)) # Get(attribute.id), Err("NonKebabCaseId", t, a))

AttrValidate ==
  /\ pc = "validate"
  /\ LET attribute == types[ti].attributes[ai]
         errs == validationErrors(attribute, ids, ti, ai, plugins)
     IN /\ promise' = RejectAll(promise, errs)
        /\ raised' = raised \o errs
        /\ ids' = Append(ids, Get(attribute.id))
  /\ pc' = "resolveAttr"
  /\ UNCHANGED <<types, isArray, plugins, ti, ai, attrs, configured, uuid, call,
                 callTypes, result1, written>>

\* lines 96-200: resolution of one attribute; writing to the clone of a
\* plugin that does not exist throws and ends the executor
AttrResolve ==
  /\ pc = "resolveAttr"
  /\ LET attribute == types[ti].attributes[ai]
         found == Get(attribute.type) \in DOMAIN plugins
         errs == When(~found, Err("TypeError", ti, ai))
     IN /\ promise' = RejectAll(promise, errs)
        /\ raised' = raised \o errs
        /\ attrs' = IF found
                    THEN Append(attrs, resolveAttribute(attribute, types[ti].identifier,
                                                        plugins[attribute.type], uuid))
                    ELSE attrs
        /\ uuid' = IF found
                   THEN uuid + InputCount(plugins[attribute.type].inputs)
                   ELSE uuid
        /\ written' = IF found
                      THEN written \cup requiredWrites(attribute, types[ti].identifier,
                                                       plugins[attribute.type])
                      ELSE written
        /\ pc' = IF ~found THEN "done"
                 ELSE IF ai < Len(types[ti].attributes) THEN "validate" ELSE "ident"
        /\ ai' = IF found /\ ai < Len(types[ti].attributes) THEN ai + 1 ELSE ai
  /\ UNCHANGED <<types, isArray, plugins, ti, ids, configured, call, callTypes, result1>>

\* lines 203-223: the reject calls of the identifier checks, and the
\* TypeError thrown when contender or its first input is undefined
identifierErrors(as, identifier, t) ==
  LET c == contenderIndex(as, identifier) IN
  IF c = 0
  THEN <<Err("IdentifierNotAttribute", t, 0), Err("TypeError", t, 0)>>
  ELSE When(InputCount(as[c].inputs) > 1, Err("IdentifierMultipleInputs", t, c))
       \o When(as[c].repeatable.kind # "absent", Err("IdentifierRepeatable", t, c))
       \o (IF InputCount(as[c].inputs) = 0
           THEN <<Err("TypeError", t, c)>>
           ELSE When(firstHasOptions(as[c].inputs), Err("IdentifierHasOptions", t, c)))

identifierThrows(as, identifier) ==
  \/ contenderIndex(as, identifier) = 0
  \/ InputCount(as[contenderIndex(as, identifier)].inputs) = 0

\* lines 203-227: the identifier checks, then mergedType.attributes = attrs
IdentCheck ==
  /\ pc = "ident"
  /\ LET errs == identifierErrors(attrs, types[ti].identifier, ti)
         thrown == identifierThrows(attrs, types[ti].identifier)
     IN /\ promise' = RejectAll(promise, errs)
        /\ raised' = raised \o errs
        /\ types' = IF thrown THEN types ELSE [types EXCEPT ![ti].attributes = attrs]
        /\ configured' = IF thrown THEN configured ELSE Append(configured, types'[ti])
        /\ pc' = IF thrown THEN "done"
                 ELSE IF ti < Len(types) THEN "type" ELSE "resolve"
        /\ ti' = IF ~thrown /\ ti < Len(types) THEN ti + 1 ELSE ti
  /\ UNCHANGED <<isArray, plugins, ai, ids, attrs, uuid, call, callTypes, result1, written>>

\* line 230: resolve(configured)
Resolve ==
  /\ pc = "resolve"
  /\ promise' = Fulfil(promise, configured)
  /\ pc' = "done"
  /\ UNCHANGED <<types, isArray, plugins, ti, ai, ids, attrs, configured, uuid, call,
                 callTypes, result1, raised, written>>

\* the caller calls squish again with the same types and the same catalog
Again ==
  /\ pc = "done"
  /\ call < MaxCalls
  /\ call' = call + 1
  /\ result1' = IF call = 1 THEN promise ELSE result1
  /\ callTypes' = types
  /\ promise' = Pending
  /\ pc' = "start"
  /\ ti' = 0
  /\ ai' = 0
  /\ ids' = <<>>
  /\ attrs' = <<>>
  /\ configured' = <<>>
  /\ raised' = <<>>
  /\ written' = {}
  /\ UNCHANGED <<types, isArray, plugins, uuid>>

Next ==
  \/ Start
  \/ TypeHeader
  \/ AttrValidate
  \/ AttrResolve
  \/ IdentCheck
  \/ Resolve
  \/ Again

Spec == Init /\ [][Next]_vars

\* ---- properties ----------------------------------------------------------
\* the attributes of a resolved content type that carry its identifier
identifierAttrs(t) ==
  { i \in 1..Len(t.attributes) : t.attributes[i].id = t.identifier }

\* C1: every content type of a fulfilled result has an attribute whose id is
\* the type's identifier; that attribute has exactly one resolved input, no
\* repeatable field, and its sole input has no options.
C1_IdentifierWellFormed ==
  promise.state = "fulfilled" =>
    \A n \in 1..Len(promise.value) :
      /\ identifierAttrs(promise.value[n]) # {}
      /\ \A i \in identifierAttrs(promise.value[n]) :
           LET c1a == promise.value[n].attributes[i] IN
             /\ ~c1a.inputs.arr
             /\ Len(c1a.inputs.maps) = 1
             /\ Cardinality(DOMAIN c1a.inputs.maps[1]) = 1
             /\ c1a.repeatable.kind = "absent"
             /\ \A k \in DOMAIN c1a.inputs.maps[1] : c1a.inputs.maps[1][k].options = {}

\* a fulfilled result of two attributes whose other attribute is repeatable
\* and has options
C1_Witness ==
  /\ promise.state = "fulfilled"
  /\ \E n \in 1..Len(promise.value) :
       /\ Len(promise.value[n].attributes) = 2
       /\ \E i \in 1..2 :
            /\ promise.value[n].attributes[i].id # promise.value[n].identifier
            /\ promise.value[n].attributes[i].inputs.arr
            /\ promise.value[n].attributes[i].type = "sel"

\* C2: in every content type of a fulfilled result the attribute that
\* carries the identifier has required = 'save'.
C2_IdentifierRequiredSave ==
  promise.state = "fulfilled" =>
    \A n \in 1..Len(promise.value) :
      \A i \in identifierAttrs(promise.value[n]) :
        promise.value[n].attributes[i].required = "save"

\* the first call fulfilled for an identifier attribute configured with
\* required 'publish' on a template whose default is 'publish'
C2_Witness ==
  /\ call = 1
  /\ promise.state = "fulfilled"
  /\ \E n \in 1..Len(promise.value) :
       \E i \in identifierAttrs(promise.value[n]) :
         /\ callTypes[n].attributes[i].required = "publish"
         /\ plugins[callTypes[n].attributes[i].type].required = "publish"

\* the current content type has raised an error
Failed == \E e \in 1..Len(raised) : raised[e].ti = ti

\* C3: once the first error of a content type is detected, no further
\* validation, resolution or identifier step runs for that content type.
C3_FailFast ==
  [][(Failed /\ pc \in {"validate", "resolveAttr", "ident"})
       => (attrs' = attrs /\ ids' = ids /\ types' = types
           /\ (pc' \notin {"validate", "resolveAttr", "ident"} \/ ti' # ti))]_vars

\* C4: when a call has completed, every content type passed in and every
\* plugin template equals its value before the call.
C4_InputsNotMutated ==
  pc = "done" => (types = callTypes /\ plugins = Catalog)

\* a resolved content type with the generated input ids and names removed
stripInput(x) == [x EXCEPT !.id = <<>>, !.name = <<>>]
stripInputs(inp) ==
  [inp EXCEPT !.maps =
     [i \in 1..Len(inp.maps) |-> [k \in DOMAIN inp.maps[i] |-> stripInput(inp.maps[i][k])]]]
stripType(t) ==
  [t EXCEPT !.attributes =
     [i \in 1..Len(t.attributes) |->
        [t.attributes[i] EXCEPT !.inputs = stripInputs(t.attributes[i].inputs)]]]
stripResult(v) == [n \in 1..Len(v) |-> stripType(v[n])]

\* C5: a second call with the same types and catalog after a successful
\* first call succeeds with a result equal to the first one once generated
\* ids and names are excluded.
C5_Idempotent ==
  (call = 2 /\ pc = "done" /\ result1.state = "fulfilled") =>
    /\ promise.state = "fulfilled"
    /\ stripResult(promise.value) = stripResult(result1.value)

\* the min and max a repeatable declaration stands for
declaredMin(r) == IF r.kind = "true" \/ r.min = <<>> THEN 1 ELSE r.min[1]
declaredMax(r) == IF r.kind = "true" \/ r.max = ABSENT THEN MAX_SAFE_INTEGER ELSE r.max

\* the inputs the attribute resolves to when it is not repeatable, ids removed
plainInputs(src, identifier, catalog) ==
  resolveAttribute([src EXCEPT !.repeatable = NoRep], identifier,
                   catalog[src.type], 0).inputs.maps[1]

\* C6: a resolved attribute declared repeatable has exactly min instances;
\* instance i carries the ids and names of the non-repeatable resolution
\* suffixed with --i and is otherwise identical to it.
C6_RepeatableExpansion ==
  pc \in {"validate", "resolveAttr", "ident"} =>
    \A j \in 1..Len(attrs) :
      LET c6s == types[ti].attributes[j]
          c6r == attrs[j]
          c6p == plainInputs(c6s, types[ti].identifier, plugins)
      IN c6s.repeatable.kind \in {"true", "object"} =>
           /\ c6r.inputs.arr
           /\ Len(c6r.inputs.maps) = declaredMin(c6s.repeatable)
           /\ c6r.repeatable = RepObj(<<declaredMin(c6s.repeatable)>>,
                                      declaredMax(c6s.repeatable))
           /\ \A i \in 1..Len(c6r.inputs.maps) :
                /\ DOMAIN c6r.inputs.maps[i] = DOMAIN c6p
                /\ \A k \in DOMAIN c6p :
                     /\ stripInput(c6r.inputs.maps[i][k]) = stripInput(c6p[k])
                     /\ c6r.inputs.maps[i][k].name = <<c6s.id, k, i - 1>>
                     /\ c6p[k].name = <<c6s.id, k>>
                     /\ Len(c6r.inputs.maps[i][k].id) = 2
                     /\ c6r.inputs.maps[i][k].id[2] = i - 1
                     /\ c6r.inputs.maps[i][k].id[1] = c6r.inputs.maps[1][k].id[1]
                     /\ \A k2 \in DOMAIN c6p :
                          k2 # k => c6r.inputs.maps[i][k2].id # c6r.inputs.maps[i][k].id

\* all attributes of a content type are resolved and one of them, with two
\* inputs, was expanded into at least two instances
C6_Witness ==
  /\ pc = "ident"
  /\ \E j \in 1..Len(attrs) :
       /\ types[ti].attributes[j].repeatable.kind = "object"
       /\ attrs[j].inputs.arr
       /\ Len(attrs[j].inputs.maps) >= 2
       /\ Cardinality(DOMAIN attrs[j].inputs.maps[1]) = 2

\* C7: for every input key the attribute overrides and the template has, the
\* resolved input keeps the template's validation and type, has a script
\* exactly when the template defines one, and takes the override's options.
C7_OverridePrecedence ==
  promise.state = "fulfilled" =>
    \A n \in 1..Len(promise.value) :
      \A j \in 1..Len(promise.value[n].attributes) :
        LET c7s == callTypes[n].attributes[j]
            c7a == promise.value[n].attributes[j]
            c7t == plugins[c7s.type].inputs.maps[1]
        IN \A i \in 1..Len(c7a.inputs.maps) :
             \A k \in InputKeys(c7s.inputs) \cap DOMAIN c7t :
               LET c7r == c7a.inputs.maps[i][k]
                   c7o == c7s.inputs.maps[1][k]
               IN /\ c7r.validation = c7t[k].validation
                  /\ c7r.type = c7t[k].type
                  /\ (c7r.script # ABSENT) = (c7t[k].script # ABSENT)
                  /\ (c7t[k].script # ABSENT => c7r.script = c7t[k].script)
                  /\ (c7o.options # {} => c7r.options = c7o.options)

\* the values a required level may be written in
LevelInputs ==
  {TRUE_, "save", NUM2, "publish", NUM1, FALSE_, UNDEF, ABSENT, NUM0, NUM3, "banana", ""}
none == FALSE_
RequiredLevels == {none, "publish", "save"}

\* C8: the normalizer maps true, 'save', 2 to save, 'publish', 1 to publish
\* and everything else to none, and every required value a successful merge
\* writes is one of none, publish, save.
C8_RequiredLevelsOnly ==
  /\ \A v \in LevelInputs :
       requiredLevel(v) = IF v \in {TRUE_, "save", NUM2} THEN "save"
                          ELSE IF v \in {"publish", NUM1} THEN "publish"
                          ELSE none
  /\ (promise.state = "fulfilled" => written \subseteq RequiredLevels)

\* the first validation check attribute a of content type t fails
failedCheck(t, a) ==
  LET c9l == callTypes[t].attributes
      c9x == c9l[a]
  IN IF c9x.type \notin DOMAIN Catalog THEN "PluginNotFound"
     ELSE IF c9x.name = ABSENT THEN "MissingAttributeName"
     ELSE IF c9x.id = ABSENT THEN "MissingAttributeId"
     ELSE IF \E b \in 1..(a - 1) : c9l[b].id = c9x.id THEN "DuplicateAttributeId"
     ELSE IF slugify(c9x.id) # c9x.id THEN "NonKebabCaseId"
     ELSE "none"

failing ==
  { p \in UNION { {<<t, a>> : a \in 1..Len(callTypes[t].attributes)} :
                  t \in 1..Len(callTypes) } :
      failedCheck(p[1], p[2]) # "none" }

firstFailing ==
  CHOOSE p \in failing :
    \A q \in failing : p[1] < q[1] \/ (p[1] = q[1] /\ p[2] <= q[2])

\* types is an array of types with string identifiers, some attribute fails
\* validation and no earlier content type raised an error
validationDecides ==
  /\ isArray
  /\ \A t \in 1..Len(callTypes) : IsString(callTypes[t].identifier)
  /\ failing # {}
  /\ \A e \in 1..Len(raised) : raised[e].ti >= firstFailing[1]

\* C9: the completed call is rejected with the error of the first failing
\* check of the first failing attribute, and has no resolved output.
C9_FirstValidationError ==
  (pc = "done" /\ validationDecides) =>
    /\ promise.state = "rejected"
    /\ promise.value = <<>>
    /\ promise.error =
         Err(failedCheck(firstFailing[1], firstFailing[2]), firstFailing[1], firstFailing[2])

\* a duplicate id in the second content type is reported although further
\* errors were raised after it
C9_Witness ==
  /\ pc = "done"
  /\ validationDecides
  /\ promise.error.kind = "DuplicateAttributeId"
  /\ Len(raised) > 1
  /\ \E e \in 1..Len(raised) : raised[e].kind = "IdentifierMultipleInputs"

\* C10: a single content type whose attributes pass validation and whose
\* identifier attribute, on a single-input template, is declared repeatable
\* fails with IdentifierRepeatable.
C10_RepeatableIdentifierReported ==
  (/\ pc = "done"
   /\ isArray
   /\ Len(callTypes) = 1
   /\ IsString(callTypes[1].identifier)
   /\ failing = {}
   /\ \E a \in 1..Len(callTypes[1].attributes) :
        /\ callTypes[1].attributes[a].id = callTypes[1].identifier
        /\ callTypes[1].attributes[a].repeatable.kind \in {"true", "object"}
        /\ InputCount(Catalog[callTypes[1].attributes[a].type].inputs) = 1)
  => (promise.state = "rejected" /\ promise.error.kind = "IdentifierRepeatable")

====
